---- MODULE Spec2Model ----
(***************************************************************************)
(* A model of the PTY session manager of obsidian-shell                    *)
(* (src/src/pty-manager.ts): one PtyManager instance, the child processes  *)
(* it has spawned through the native PTY binding, the event loop that      *)
(* delivers the children's data and exit events, and the consumers the     *)
(* caller registers with onData/onExit.                                    *)
(*                                                                         *)
(* JavaScript runs one callback at a time.  A data or exit event is fanned *)
(* out to the consumers by a for-of loop over this.dataCallbacks or        *)
(* this.exitCallbacks; each consumer runs synchronously inside the loop    *)
(* and may itself call methods of the manager.  The loop is modelled one   *)
(* iteration per step (variable frame), and while a fan-out is in          *)
(* progress only the consumers act.  (Spec)                                *)
(*                                                                         *)
(* The module also models the functions beside the class: the PATH         *)
(* resolver with its process-wide cache (SpecPath), what spawn hands to    *)
(* the binding for every option on every host (SpecLaunch), and the        *)
(* escape sanitizer applied to chunks of child output (SpecStrip).         *)
(*                                                                         *)
(* The panel that owns a manager, TerminalView (src/src/terminal-view.ts), *)
(* is modelled with its fields, its layout wait on animation frames, its   *)
(* input listener and what it writes on the terminal (SpecView, and        *)
(* SpecViewFair where animation frames keep coming).                       *)
(***************************************************************************)
EXTENDS Integers, Sequences, FiniteSets, TLC

\* ------------------------------------------------------------------ bounds

MaxChildren == 2      \* spawns that succeed
MaxCallbacks == 3     \* onData/onExit registrations
MaxPieces == 3        \* pieces a chunk of child output is put together from
MaxPasses == 2        \* times the sanitizer is applied to a chunk in a row
MaxOpens == 2         \* times a view is opened

Children == 1..MaxChildren

\* The terminals a view makes, one for each initTerminal.
Terminals == 1..MaxOpens

\* ------------------------------------------------------- escape sanitizer

ESC == "ESC"
BEL == "BEL"
CR == "CR"

Digits == {"0", "1", "2", "3", "4", "5", "6", "7", "8", "9"}

CharAt(s, i) == IF i >= 1 /\ i <= Len(s) THEN s[i] ELSE "EOF"

\* [0-9;]* from position j: the first position after the run.
RECURSIVE ParamRunEnd(_, _)
ParamRunEnd(s, j) ==
    IF CharAt(s, j) \in Digits \cup {";"} THEN ParamRunEnd(s, j + 1) ELSE j

\* \x1b\[[<>?][0-9;]*u at position i: the length of the match, 0 for none.
MatchKeyboard(s, i) ==
    IF /\ CharAt(s, i) = ESC
       /\ CharAt(s, i + 1) = "["
       /\ CharAt(s, i + 2) \in {"<", ">", "?"}
       /\ CharAt(s, ParamRunEnd(s, i + 3)) = "u"
    THEN ParamRunEnd(s, i + 3) - i + 1
    ELSE 0

\* \x1b\[\?(?:2026|1004|2004)[hl] at position i.
MatchMode(s, i) ==
    IF /\ CharAt(s, i) = ESC
       /\ CharAt(s, i + 1) = "["
       /\ CharAt(s, i + 2) = "?"
       /\ <<CharAt(s, i + 3), CharAt(s, i + 4), CharAt(s, i + 5), CharAt(s, i + 6)>>
             \in {<<"2", "0", "2", "6">>, <<"1", "0", "0", "4">>, <<"2", "0", "0", "4">>}
       /\ CharAt(s, i + 7) \in {"h", "l"}
    THEN 8
    ELSE 0

\* \x1b\]9;4;0;\x07? at position i.
MatchProgress(s, i) ==
    IF /\ CharAt(s, i) = ESC
       /\ CharAt(s, i + 1) = "]"
       /\ <<CharAt(s, i + 2), CharAt(s, i + 3), CharAt(s, i + 4), CharAt(s, i + 5),
            CharAt(s, i + 6), CharAt(s, i + 7)>> = <<"9", ";", "4", ";", "0", ";">>
    THEN IF CharAt(s, i + 8) = BEL THEN 9 ELSE 8
    ELSE 0

\* The alternation, tried in the order the regular expression lists it.
MatchAt(s, i) ==
    IF MatchKeyboard(s, i) > 0 THEN MatchKeyboard(s, i)
    ELSE IF MatchMode(s, i) > 0 THEN MatchMode(s, i)
    ELSE MatchProgress(s, i)

\* String.replace with the g flag: one left-to-right pass, matches removed.
RECURSIVE StripFrom(_, _)
StripFrom(s, i) ==
    IF i > Len(s) THEN <<>>
    ELSE IF MatchAt(s, i) > 0 THEN StripFrom(s, i + MatchAt(s, i))
    ELSE <<s[i]>> \o StripFrom(s, i + 1)

stripUnsupportedSequences(data) == StripFrom(data, 1)

\* ----------------------------------------------------------------- strings
\* A string is the sequence of its atoms: each of the characters ":", "/",
\* " ", newline (NL), "'" and '"' is an atom of its own, and a maximal run of
\* other characters between them is one atom.  undefined and null are atoms
\* that are no string.

Undefined == <<"undefined">>
Null == <<"null">>
NL == "NL"

\* The truthiness test of JavaScript on a value that is a string, undefined
\* or null.
Truthy(v) == v # Undefined /\ v # Null /\ v # <<>>

\* a || b
OrElse(a, b) == IF Truthy(a) THEN a ELSE b

\* The first position of sep in s at or after i, Len(s) + 1 when there is none.
RECURSIVE IndexFrom(_, _, _)
IndexFrom(s, sep, i) ==
    IF i > Len(s) \/ s[i] = sep THEN i ELSE IndexFrom(s, sep, i + 1)

\* String.split(sep): the fields between the separators, empty ones kept.
RECURSIVE Split(_, _)
Split(s, sep) ==
    LET k == IndexFrom(s, sep, 1)
    IN IF k > Len(s) THEN <<s>>
       ELSE <<SubSeq(s, 1, k - 1)>> \o Split(SubSeq(s, k + 1, Len(s)), sep)

\* Array.join(sep)
RECURSIVE Join(_, _)
Join(list, sep) ==
    IF Len(list) = 0 THEN <<>>
    ELSE IF Len(list) = 1 THEN list[1]
    ELSE list[1] \o <<sep>> \o Join(Tail(list), sep)

\* Array.filter(Boolean) on an array of strings: the empty strings go.
RECURSIVE FilterBoolean(_)
FilterBoolean(list) ==
    IF Len(list) = 0 THEN <<>>
    ELSE IF list[1] = <<>> THEN FilterBoolean(Tail(list))
    ELSE <<list[1]>> \o FilterBoolean(Tail(list))

\* The list as it is, repeated values kept.
UniqueKeepsAll(list, seen) == list

\* [...new Set(list)]: each value once, at the place of its first occurrence.
RECURSIVE Unique(_, _)
Unique(list, seen) ==
    IF Len(list) = 0 THEN <<>>
    ELSE IF list[1] \in seen THEN Unique(Tail(list), seen)
    ELSE <<list[1]>> \o Unique(Tail(list), seen \cup {list[1]})

\* Runs of the separator become one separator.
RECURSIVE CollapseSlashes(_, _)
CollapseSlashes(s, sep) ==
    IF Len(s) <= 1 THEN s
    ELSE IF s[1] = sep /\ s[2] = sep THEN CollapseSlashes(Tail(s), sep)
    ELSE <<s[1]>> \o CollapseSlashes(Tail(s), sep)

\* path.win32 takes "/" for a separator too and writes every separator as a
\* backslash.
ToBackslashes(s) == [i \in 1..Len(s) |-> IF s[i] = "/" THEN "\\" ELSE s[i]]

\* path.join(a, b, c) for segments without "." and "..", no drive letter and
\* no UNC prefix: the non-empty segments joined by the separator of the
\* platform and normalized.  `import * as path from "path"` is path.win32 on
\* Windows and path.posix elsewhere.
PathJoin(platform, a, b, c) ==
    IF platform = "win32"
    THEN CollapseSlashes(ToBackslashes(Join(FilterBoolean(<<a, b, c>>), "\\")), "\\")
    ELSE CollapseSlashes(Join(FilterBoolean(<<a, b, c>>), "/"), "/")

Whitespace == {" ", NL}

\* String.trim()
RECURSIVE TrimStart(_)
TrimStart(s) ==
    IF Len(s) > 0 /\ s[1] \in Whitespace THEN TrimStart(Tail(s)) ELSE s

RECURSIVE TrimEnd(_)
TrimEnd(s) ==
    IF Len(s) > 0 /\ s[Len(s)] \in Whitespace THEN TrimEnd(SubSeq(s, 1, Len(s) - 1)) ELSE s

Trim(s) == TrimEnd(TrimStart(s))

\* ------------------------------------------------- the process environment

\* detectShell(): the user's shell on macOS and Linux, the command processor
\* on Windows, each with its default.
detectShell(host) ==
    IF host.platform = "darwin" THEN OrElse(host.env.SHELL, <<"/", "bin", "/", "zsh">>)
    ELSE IF host.platform = "linux" THEN OrElse(host.env.SHELL, <<"/", "bin", "/", "bash">>)
    ELSE OrElse(host.env.COMSPEC, <<"cmd.exe">>)

\* const extras = [...] of buildFallbackPath.
FallbackExtras(platform, home) ==
    << PathJoin(platform, home, <<".local">>, <<"bin">>),
       PathJoin(platform, home, <<".bun">>, <<"bin">>),
       <<"/", "usr", "/", "local", "/", "bin">>,
       <<"/", "opt", "/", "homebrew", "/", "bin">>,
       <<"/", "opt", "/", "homebrew", "/", "sbin">>,
       PathJoin(platform, home, <<".npm-global">>, <<"bin">>),
       PathJoin(platform, home, <<"bin">>, <<>>) >>

\* buildFallbackPath(): the well-known directories, then the inherited PATH,
\* each entry once, no empty entry.
buildFallbackPath(host) ==
    LET home == OrElse(host.env.HOME, <<>>)
        current == OrElse(host.env.PATH, <<"/", "usr", "/", "bin", ":", "/", "bin">>)
    IN Join(FilterBoolean(Unique(FallbackExtras(host.platform, home)
                                     \o Split(current, ":"), {})), ":")

\* ------------------------------------------------------- command tokenizer

SQ == "'"
DQ == "dq"

\* The tokens of a command line: split at whitespace, a quoted segment kept
\* whole and its quotes dropped.  q is the open quote, "" outside quotes.
RECURSIVE ParseFrom(_, _, _, _)
ParseFrom(s, i, cur, q) ==
    LET flush == IF cur = <<>> THEN <<>> ELSE <<cur>>
    IN IF i > Len(s) THEN flush
       ELSE IF q # "" THEN
              IF s[i] = q THEN ParseFrom(s, i + 1, cur, "")
              ELSE ParseFrom(s, i + 1, cur \o <<s[i]>>, q)
       ELSE IF s[i] \in {SQ, DQ} THEN ParseFrom(s, i + 1, cur, s[i])
       ELSE IF s[i] \in Whitespace THEN flush \o ParseFrom(s, i + 1, <<>>, "")
       ELSE ParseFrom(s, i + 1, cur \o <<s[i]>>, "")

parseCommand(command) == ParseFrom(command, 1, <<>>, "")

\* A run of whitespace becomes one space.
RECURSIVE CollapseWhitespace(_)
CollapseWhitespace(s) ==
    IF Len(s) = 0 THEN s
    ELSE IF s[1] \in Whitespace
         THEN IF Len(s) > 1 /\ s[2] \in Whitespace
              THEN CollapseWhitespace(Tail(s))
              ELSE <<" ">> \o CollapseWhitespace(Tail(s))
    ELSE <<s[1]>> \o CollapseWhitespace(Tail(s))

\* options.command.split(/\s+/), the tokenizer of the earlier revision of
\* spawn: the fields between the runs of whitespace, an empty field before
\* leading and after trailing whitespace.
SplitWhitespace(command) == Split(CollapseWhitespace(command), " ")

\* ------------------------------------------------------------------ inputs

\* Chunks of child output: plain text, a targeted sequence alone (bracketed
\* paste on), a targeted sequence inside text (keyboard protocol push).
Chunks ==
    { <<"a">>,
      <<ESC, "[", "?", "2", "0", "0", "4", "h">>,
      <<"a", ESC, "[", ">", "1", "u", "b">> }

\* What chunks of child output are put together from: text, one sequence of
\* each targeted kind (bracketed paste, synchronized output, focus report,
\* keyboard protocol, vendor progress), and the head and the final character
\* of a keyboard protocol sequence.
Pieces ==
    { <<"a">>,
      <<ESC, "[", "?", "2", "0", "0", "4", "h">>,
      <<ESC, "[", "?", "2", "0", "2", "6", "l">>,
      <<ESC, "[", "?", "1", "0", "0", "4", "h">>,
      <<ESC, "[", ">", "1", "u">>,
      <<ESC, "]", "9", ";", "4", ";", "0", ";", BEL>>,
      <<ESC, "[", "?">>,
      <<"u">> }

\* The chunks of at most n pieces.
RECURSIVE ChunksOf(_)
ChunksOf(n) ==
    IF n = 0 THEN {<<>>}
    ELSE ChunksOf(n - 1) \cup {c \o p : c \in ChunksOf(n - 1), p \in Pieces}

ChunkInputs == ChunksOf(MaxPieces)

\* Text the caller writes.
Texts == { <<"x">> }

\* A window size resize asks for.
NewSize == <<100, 30>>

\* What node-pty reports when a child ends.
ExitRecords == { [exitCode |-> 0, signal |-> 0], [exitCode |-> 1, signal |-> 15] }

\* What a consumer does when it is invoked: nothing more than consume the
\* event, or call back into the manager from inside the fan-out.  A consumer
\* returns normally.
Behaviours == {"consume", "kill", "onData", "onExit"}

\* Outcomes of PtyManager.spawn: the child is created, requireNodePty
\* throws (the binding cannot be loaded), or nodePty.spawn throws (the
\* process cannot be created).
SpawnOutcomes == {"ok", "loadFailure", "createFailure"}

\* An environment variable table: the variables the program reads or sets,
\* and LANG for the ones it does neither with.
EnvTable(home, user, path, shell, comspec) ==
    [HOME |-> home, USER |-> user, PATH |-> path, SHELL |-> shell, COMSPEC |-> comspec,
     LANG |-> <<"en_US.UTF-8">>, TERM |-> Undefined, COLORTERM |-> Undefined,
     TERM_PROGRAM |-> Undefined]

HomeU == <<"/", "home", "/", "u">>
UsrBin == <<"/", "usr", "/", "bin">>
Fish == <<"/", "usr", "/", "bin", "/", "fish">>

\* The host as the desktop application has it on macOS when it was started
\* from a terminal: TERM and TERM_PROGRAM are inherited too, and the PATH
\* names $HOME/bin and a well-known directory, has an empty entry and
\* repeats an entry.
MacHost ==
    [platform |-> "darwin",
     env |-> [EnvTable(<<"/", "Users", "/", "u">>, <<"u">>,
                       <<"/", "Users", "/", "u", "/", "bin", ":",
                         "/", "opt", "/", "homebrew", "/", "bin", ":">>
                          \o UsrBin \o <<":", ":", "/", "bin", ":">> \o UsrBin,
                       <<"/", "bin", "/", "zsh">>, Undefined)
                EXCEPT !.TERM = <<"screen">>, !.TERM_PROGRAM = <<"Apple_Terminal">>]]

\* Platform and process.env as the program may find them: the usual macOS
\* host; Linux with nothing set; Windows, where path.join writes
\* backslashes, with a HOME that ends in a slash and an inherited PATH that
\* names $HOME/bin with slashes and a well-known directory, has an empty
\* entry and repeats an entry.
Hosts ==
    { MacHost,
      [platform |-> "linux",
       env |-> EnvTable(Undefined, Undefined, Undefined, Undefined, Undefined)],
      [platform |-> "win32",
       env |-> EnvTable(HomeU \o <<"/">>, <<"u">>,
                        HomeU \o <<"/", "bin", ":", "/", "usr", "/", "local", "/", "bin", ":", ":">>
                           \o UsrBin \o <<":">> \o UsrBin,
                        Undefined, <<"C", ":", "\\", "cmd.exe">>)] }

\* buildFallbackPath() on each host, computed once.
FallbackPathOn == [h \in Hosts |-> buildFallbackPath(h)]

\* A PATH a caller has resolved beforehand.
UserPath == HomeU \o <<"/", ".cargo", "/", "bin", ":">> \o UsrBin

\* Command lines: the one the view builds for auto-launch, one with two
\* spaces between its tokens, one with a quoted argument, one of whitespace
\* only.
ClaudeCommand == <<"claude", " ", "--model", " ", "opus">>

Commands ==
    { ClaudeCommand,
      <<"ls", " ", " ", "-la">>,
      <<"git", " ", "commit", " ", "-m", " ", SQ, "a", " ", "b", SQ>>,
      <<" ">> }

\* parseCommand of each command line, computed once.
TokensOf == [c \in Commands |-> parseCommand(c)]

Options(shellPath, command, resolvedPath) ==
    [shellPath |-> shellPath, command |-> command, resolvedPath |-> resolvedPath]

\* The options TerminalView.spawnPty passes: the shell of the settings or
\* none, the auto-launch command or none, no resolvedPath.
SessionOptions ==
    { Options(Undefined, Undefined, Undefined),
      Options(Fish, ClaudeCommand, Undefined) }

\* The options any caller may pass.
AnyOptions ==
    { Options(sh, cmd, rp) :
        sh \in {Undefined, Fish},
        cmd \in Commands \cup {Undefined, <<>>},
        rp \in {Undefined, <<>>, UserPath} }

\* What a run of the shell through execFileSync ends in: it prints something
\* and exits with 0, or execFileSync throws (non-zero exit, timeout, the
\* shell cannot be started).
ExecOutcome(kind, out) == [kind |-> kind, out |-> out]

ExecOutcomes ==
    { ExecOutcome("ok", UserPath \o <<NL>>),
      ExecOutcome("ok", <<NL>>),
      ExecOutcome("nonzero", <<>>),
      ExecOutcome("timeout", <<>>),
      ExecOutcome("exception", <<>>) }

\* The shell a caller of resolveUserPath may name.
ShellOverrides == {Undefined, Fish}

\* ------------------------------------------------------------------- state

VARIABLES
    pty,            \* this.pty: 0 for null, else the child the handle names
    dataCallbacks,  \* this.dataCallbacks: registration ids, in push order
    exitCallbacks,  \* this.exitCallbacks
    cstate,         \* per child: "none", "running", "killed" (kill requested,
                    \*   still running), "dead" (terminated, exit event not yet
                    \*   delivered), "reaped" (exit event delivered)
    nextCb,         \* registrations made so far
    frame,          \* the fan-out in progress, if any
    lastCall,       \* the call or event that made the last step, and the call
                    \*   it made on a child's handle
    cachedUserPath, \* the module variable cachedUserPath: Null or a PATH
    chunk,          \* a chunk of child output given to the sanitizer
    passes,         \* what the sanitizer returned for chunk, then for its
                    \*   own output
    view            \* a TerminalView: its fields, and what it has registered
                    \*   with the terminal, the window and the display

vars == <<pty, dataCallbacks, exitCallbacks, cstate, nextCb, frame, lastCall,
          cachedUserPath, chunk, passes, view>>

NoFrame ==
    [active |-> FALSE, kind |-> "none", child |-> 0, raw |-> <<>>, payload |-> <<>>,
     exit |-> [exitCode |-> 0, signal |-> 0], dropped |-> FALSE, attached |-> FALSE,
     list |-> <<>>, idx |-> 1, startList |-> <<>>, calls |-> <<>>,
     killedIn |-> FALSE, stale |-> FALSE, late |-> FALSE]

\* A call on the handle of child c: hop is "write", "resize" or "kill", harg
\* the text or the size passed, threw whether the handle threw.
OnHandle(c, hop, harg, threw) == [child |-> c, hop |-> hop, harg |-> harg, threw |-> threw]

NoHandle == OnHandle(0, "none", <<>>, FALSE)

\* nodePty.spawn(program, args, {..., env}), and process.env as it is after
\* env was built.
Launch(program, args, env, processEnv) ==
    [made |-> TRUE, program |-> program, args |-> args, env |-> env,
     processEnv |-> processEnv]

NoLaunch ==
    [made |-> FALSE, program |-> Undefined, args |-> <<>>,
     env |-> EnvTable(Undefined, Undefined, Undefined, Undefined, Undefined),
     processEnv |-> EnvTable(Undefined, Undefined, Undefined, Undefined, Undefined)]

\* The step made by method op with argument data: whether it raised to its
\* caller, the call it made on a handle, the process it launched, the shell
\* runs it made through execFileSync, and the string it returned.
Call(op, raised, data, h) ==
    [op |-> op, raised |-> raised, data |-> data, handle |-> h,
     launch |-> NoLaunch, execs |-> <<>>, result |-> Undefined]

\* A call without arguments.
NoData == [none |-> TRUE]

Other == Call("other", FALSE, NoData, NoHandle)

Range(s) == { s[i] : i \in 1..Len(s) }

\* A new PtyManager, no event in progress.
InitManager ==
    /\ pty = 0
    /\ dataCallbacks = <<>>
    /\ exitCallbacks = <<>>
    /\ cstate = [c \in Children |-> "none"]
    /\ nextCb = 0
    /\ frame = NoFrame
    /\ lastCall = Other

\* let cachedUserPath: string | null = null
InitCache == cachedUserPath = Null

\* A TerminalView after its constructor: every field null.  The fields keep
\* their names; ptyManager says whether the view holds a PtyManager, whose
\* fields are pty, dataCallbacks and exitCallbacks.  Next to them: the
\* terminals made so far, whether the container has a size, the layout-wait
\* callbacks requestAnimationFrame holds and how many of them were already
\* held at the last onClose, the input listeners registered on
\* each terminal, the resize observers attached, what was written on the
\* current terminal, the writes the last keystroke led to, and what the
\* last data event wrote on the terminal.
InitView ==
    view = [terminal |-> 0, terminalContainer |-> FALSE, ptyManager |-> FALSE,
            inputDisposable |-> 0, resizeObserver |-> FALSE,
            opens |-> 0, laidOut |-> FALSE, pending |-> 0, leftover |-> 0,
            listeners |-> [t \in Terminals |-> 0], observing |-> 0,
            display |-> <<>>, typed |-> <<>>, written |-> <<>>]

Init ==
    /\ InitManager
    /\ InitCache
    /\ chunk = <<>>
    /\ passes = <<>>
    /\ InitView

\* --------------------------------------------------- the native PTY handle

\* The child's process exists: spawned and not yet terminated.
Alive(c) == cstate[c] \in {"running", "killed"}

\* Whether a call on the handle of child c may throw: never while the child
\* is alive; once it has terminated the binding may throw or not.
HandleThrows(c) == IF Alive(c) THEN {FALSE} ELSE BOOLEAN

\* ------------------------------------------------------ PtyManager methods
\* Each method takes the fan-out frame as it stands when the method returns
\* to its caller: NoFrame for a call from the event loop, the advanced frame
\* for a call from inside a consumer.

\* The registrations a kill() has removed from the lists.
StaleCbs == (1..nextCb) \ (Range(dataCallbacks) \cup Range(exitCallbacks))

\* The array a for-of loop is iterating: this.dataCallbacks/exitCallbacks
\* itself (a push is seen by the loop) until kill() replaces the field with
\* a new array, after which the loop still holds the old one.
Iterated(f) ==
    IF f.attached
    THEN IF f.kind = "data" THEN dataCallbacks ELSE exitCallbacks
    ELSE f.list

Detach(f) ==
    IF f.active
    THEN [f EXCEPT !.attached = FALSE, !.list = Iterated(f), !.killedIn = TRUE]
    ELSE f

\* The child the next successful spawn creates.
NewChild == Cardinality({c \in Children : cstate[c] # "none"}) + 1

\* const shell = options.shellPath || detectShell()
EffectiveShell(options, host) == OrElse(options.shellPath, detectShell(host))

\* PATH: options.resolvedPath || process.env.PATH, without the well-known
\* directories.
SpawnPathInherited(options, host) == OrElse(options.resolvedPath, host.env.PATH)

\* PATH: options.resolvedPath || buildFallbackPath()
SpawnPath(options, host) == OrElse(options.resolvedPath, FallbackPathOn[host])

\* An environment of the four variables spawn sets and nothing else.
SpawnEnvOnlyOverrides(options, host) ==
    [EnvTable(Undefined, Undefined, Undefined, Undefined, Undefined)
       EXCEPT !.LANG = Undefined,
              !.TERM = <<"xterm-256color">>,
              !.COLORTERM = <<"truecolor">>,
              !.PATH = SpawnPath(options, host),
              !.TERM_PROGRAM = <<"xterm">>]

\* Object.assign({}, process.env, {TERM, COLORTERM, PATH, TERM_PROGRAM})
SpawnEnv(options, host) ==
    [host.env EXCEPT !.TERM = <<"xterm-256color">>,
                     !.COLORTERM = <<"truecolor">>,
                     !.PATH = SpawnPath(options, host),
                     !.TERM_PROGRAM = <<"xterm">>]

\* process.env after Object.assign({}, process.env, {...}): the target of
\* the assignment is a new object, process.env is only read.
ProcessEnvAfter(options, host) == host.env

\* The command handed to the shell in place of being launched itself.
LaunchFileShell(options, host) == EffectiveShell(options, host)

\* The program nodePty.spawn is given: parts[0] of the tokenized command
\* (undefined when there is no token) if options.command is truthy, else
\* the shell.
LaunchFile(options, host) ==
    IF Truthy(options.command)
    THEN IF Len(TokensOf[options.command]) > 0
         THEN TokensOf[options.command][1]
         ELSE Undefined
    ELSE EffectiveShell(options, host)

\* Every token handed on as an argument, the program's name included.
LaunchArgsUnsliced(options) ==
    IF Truthy(options.command) THEN TokensOf[options.command] ELSE <<>>

\* The arguments nodePty.spawn is given: parts.slice(1), or [].
LaunchArgs(options) ==
    IF Truthy(options.command) /\ Len(TokensOf[options.command]) > 0
    THEN Tail(TokensOf[options.command])
    ELSE <<>>

\* spawn with a try around its body whose catch is empty.
SpawnRaisesSwallowed(outcome) == FALSE

\* Nothing in spawn catches what requireNodePty or nodePty.spawn throws.
SpawnRaises(outcome) == outcome # "ok"

\* PtyManager.spawn: load the binding, create the child, store the handle,
\* register the two handlers on it.  Nothing is done to a handle the
\* manager already holds.  When requireNodePty or nodePty.spawn throws, the
\* assignment to this.pty and the two registrations are not reached.
spawn(f, outcome, options, host) ==
    LET label == Call("spawn", SpawnRaises(outcome),
                      [options |-> options, host |-> host, outcome |-> outcome], NoHandle)
        launch == Launch(LaunchFile(options, host), LaunchArgs(options),
                         SpawnEnv(options, host), ProcessEnvAfter(options, host))
    IN
    /\ NewChild \in Children
    /\ IF outcome = "ok"
       THEN /\ pty' = NewChild
            /\ cstate' = [cstate EXCEPT ![NewChild] = "running"]
            /\ lastCall' = [label EXCEPT !.launch = launch]
       ELSE /\ UNCHANGED <<pty, cstate>>
            /\ lastCall' = IF outcome = "createFailure"
                           THEN [label EXCEPT !.launch = launch]
                           ELSE label
    /\ frame' = f
    /\ UNCHANGED <<dataCallbacks, exitCallbacks, nextCb>>

\* this.pty?.write(data) is not inside a try: what the handle throws
\* reaches the caller.
WriteRaises(thr) == thr

\* write with this.pty.write(data) in place of this.pty?.write(data).
writeUnguarded(f, op, arg, data) ==
    /\ IF pty = 0
       THEN lastCall' = Call(op, TRUE, [text |-> arg], NoHandle)
       ELSE \E thr \in HandleThrows(pty) :
              lastCall' = Call(op, WriteRaises(thr), [text |-> arg],
                               OnHandle(pty, "write", data, thr))
    /\ frame' = f
    /\ UNCHANGED <<pty, dataCallbacks, exitCallbacks, cstate, nextCb>>

\* PtyManager.write.
write(f, op, arg, data) ==
    /\ IF pty = 0
       THEN lastCall' = Call(op, FALSE, [text |-> arg], NoHandle)
       ELSE \E thr \in HandleThrows(pty) :
              lastCall' = Call(op, WriteRaises(thr), [text |-> arg],
                               OnHandle(pty, "write", data, thr))
    /\ frame' = f
    /\ UNCHANGED <<pty, dataCallbacks, exitCallbacks, cstate, nextCb>>

\* sendCommand without the carriage return.
sendCommandBare(f, cmd) == write(f, "sendCommand", cmd, cmd)

\* PtyManager.sendCommand / sendText.
sendCommand(f, cmd) == write(f, "sendCommand", cmd, cmd \o <<CR>>)

sendText(f, text) == write(f, "sendText", text, text)

\* PtyManager.onData / onExit: push onto the list.
\* (onDataUnshift: the registration put at the front of the list.)
onDataUnshift(f) ==
    /\ nextCb < MaxCallbacks
    /\ nextCb' = nextCb + 1
    /\ dataCallbacks' = <<nextCb + 1>> \o dataCallbacks
    /\ lastCall' = Other
    /\ frame' = f
    /\ UNCHANGED <<pty, exitCallbacks, cstate>>

onData(f) ==
    /\ nextCb < MaxCallbacks
    /\ nextCb' = nextCb + 1
    /\ dataCallbacks' = Append(dataCallbacks, nextCb + 1)
    /\ lastCall' = Other
    /\ frame' = f
    /\ UNCHANGED <<pty, exitCallbacks, cstate>>

onExit(f) ==
    /\ nextCb < MaxCallbacks
    /\ nextCb' = nextCb + 1
    /\ exitCallbacks' = Append(exitCallbacks, nextCb + 1)
    /\ lastCall' = Other
    /\ frame' = f
    /\ UNCHANGED <<pty, dataCallbacks, cstate>>

\* resize without its try/catch.
ResizeRaisesUncaught(thr) == thr

\* The try/catch of resize: what the handle throws is swallowed.
ResizeRaises(thr) == FALSE

\* PtyManager.resize.
resize(f, size) ==
    /\ IF pty = 0
       THEN lastCall' = Call("resize", FALSE, [size |-> size], NoHandle)
       ELSE \E thr \in HandleThrows(pty) :
              lastCall' = Call("resize", ResizeRaises(thr), [size |-> size],
                               OnHandle(pty, "resize", size, thr))
    /\ frame' = f
    /\ UNCHANGED <<pty, dataCallbacks, exitCallbacks, cstate, nextCb>>

\* kill without its try/catch.
KillRaisesUncaught(thr) == thr

\* The try/catch of kill: what the handle throws is swallowed.
KillRaises(thr) == FALSE

\* The children after the handle of child c was asked to kill it.
KillRequested(c) == IF Alive(c) THEN [cstate EXCEPT ![c] = "killed"] ELSE cstate

\* kill with this.pty.kill() outside a try in place of
\* try { this.pty?.kill() } catch {}.
killNoTry(f) ==
    /\ IF pty = 0
       THEN /\ UNCHANGED cstate
            /\ lastCall' = Call("kill", TRUE, NoData, NoHandle)
       ELSE \E thr \in HandleThrows(pty) :
              /\ cstate' = KillRequested(pty)
              /\ lastCall' = Call("kill", thr, NoData,
                                  OnHandle(pty, "kill", <<>>, thr))
    /\ pty' = 0
    /\ dataCallbacks' = <<>>
    /\ exitCallbacks' = <<>>
    /\ frame' = Detach(f)
    /\ UNCHANGED nextCb

\* PtyManager.kill: ask the handle to kill the child, then clear the handle
\* and replace both lists by new empty arrays.
kill(f) ==
    /\ IF pty = 0
       THEN /\ UNCHANGED cstate
            /\ lastCall' = Call("kill", FALSE, NoData, NoHandle)
       ELSE \E thr \in HandleThrows(pty) :
              /\ cstate' = KillRequested(pty)
              /\ lastCall' = Call("kill", KillRaises(thr), NoData,
                                  OnHandle(pty, "kill", <<>>, thr))
    /\ pty' = 0
    /\ dataCallbacks' = <<>>
    /\ exitCallbacks' = <<>>
    /\ frame' = Detach(f)
    /\ UNCHANGED nextCb

\* ------------------------------------------- calls made from the event loop
\* A call from the event loop runs only when no fan-out is in progress.

Spawn ==
    /\ ~frame.active
    /\ \E outcome \in SpawnOutcomes, options \in SessionOptions :
         spawn(frame, outcome, options, MacHost)
    /\ UNCHANGED <<cachedUserPath, chunk, passes, view>>

Write ==
    /\ ~frame.active
    /\ \E data \in Texts : write(frame, "write", data, data)
    /\ UNCHANGED <<cachedUserPath, chunk, passes, view>>

SendCommand ==
    /\ ~frame.active
    /\ \E cmd \in Texts : sendCommand(frame, cmd)
    /\ UNCHANGED <<cachedUserPath, chunk, passes, view>>

SendText ==
    /\ ~frame.active
    /\ \E text \in Texts : sendText(frame, text)
    /\ UNCHANGED <<cachedUserPath, chunk, passes, view>>

OnData ==
    /\ ~frame.active
    /\ onData(frame)
    /\ UNCHANGED <<cachedUserPath, chunk, passes, view>>

OnExit ==
    /\ ~frame.active
    /\ onExit(frame)
    /\ UNCHANGED <<cachedUserPath, chunk, passes, view>>

Resize ==
    /\ ~frame.active
    /\ resize(frame, NewSize)
    /\ UNCHANGED <<cachedUserPath, chunk, passes, view>>

Kill ==
    /\ ~frame.active
    /\ kill(frame)
    /\ UNCHANGED <<cachedUserPath, chunk, passes, view>>

\* ------------------------------------------------- the children, the events

\* A child that is alive terminates, by itself or because it was killed.
ChildExit ==
    /\ ~frame.active
    /\ \E c \in Children :
         /\ Alive(c)
         /\ cstate' = [cstate EXCEPT ![c] = "dead"]
    /\ lastCall' = Other
    /\ UNCHANGED <<pty, dataCallbacks, exitCallbacks, nextCb, frame>>
    /\ UNCHANGED <<cachedUserPath, chunk, passes, view>>

\* const cleaned = stripUnsupportedSequences(data), without the call.
OnDataRaw(data) == data

\* const cleaned = stripUnsupportedSequences(data)
OnDataCleaned(data) == stripUnsupportedSequences(data)

\* if (cleaned.length === 0) return
OnDataDropped(cleaned) == Len(cleaned) = 0

\* The handler spawn registered with pty.onData runs for a chunk of output
\* of child c: sanitize, return if nothing is left, else start the loop over
\* this.dataCallbacks.  Output still in flight when the child terminates or
\* is killed is delivered too.
DeliverData ==
    /\ ~frame.active
    /\ \E c \in Children, data \in Chunks :
         /\ cstate[c] \in {"running", "killed", "dead"}
         /\ frame' = [NoFrame EXCEPT !.active = TRUE, !.kind = "data", !.child = c,
                                     !.raw = data, !.payload = OnDataCleaned(data),
                                     !.dropped = OnDataDropped(OnDataCleaned(data)),
                                     !.attached = TRUE, !.startList = dataCallbacks]
    /\ lastCall' = Other
    /\ UNCHANGED <<pty, dataCallbacks, exitCallbacks, cstate, nextCb>>
    /\ UNCHANGED <<cachedUserPath, chunk, passes, view>>

\* The handler spawn registered with pty.onExit runs for child c, once per
\* child: start the loop over this.exitCallbacks.
DeliverExit ==
    /\ ~frame.active
    /\ \E c \in Children, rec \in ExitRecords :
         /\ cstate[c] = "dead"
         /\ cstate' = [cstate EXCEPT ![c] = "reaped"]
         /\ frame' = [NoFrame EXCEPT !.active = TRUE, !.kind = "exit", !.child = c,
                                     !.exit = rec, !.attached = TRUE,
                                     !.startList = exitCallbacks]
    /\ lastCall' = Other
    /\ UNCHANGED <<pty, dataCallbacks, exitCallbacks, nextCb>>
    /\ UNCHANGED <<cachedUserPath, chunk, passes, view>>

\* A loop that skips the consumer after the one it has invoked.
LoopSkips(f) == f.idx + 2

\* The position of the loop after the iteration at f.idx.
LoopNext(f) == f.idx + 1

\* The consumer does nothing with the manager.
consume(f) ==
    /\ frame' = f
    /\ lastCall' = Other
    /\ UNCHANGED <<pty, dataCallbacks, exitCallbacks, cstate, nextCb>>

\* One iteration of for (const cb of this.dataCallbacks) cb(cleaned), or of
\* for (const cb of this.exitCallbacks) cb(exitCode, signal): the consumer at
\* the loop's position is invoked and runs to its end.
InvokeNext ==
    /\ frame.active
    /\ ~frame.dropped
    /\ frame.idx <= Len(Iterated(frame))
    /\ LET cb == Iterated(frame)[frame.idx]
           f1 == [frame EXCEPT !.idx = LoopNext(frame),
                               !.calls = Append(@, cb),
                               !.stale = @ \/ cb \in StaleCbs,
                               !.late = @ \/ frame.killedIn]
       IN \E b \in Behaviours :
            \/ b = "consume" /\ consume(f1)
            \/ b = "kill" /\ kill(f1)
            \/ b = "onData" /\ onData(f1)
            \/ b = "onExit" /\ onExit(f1)
    /\ UNCHANGED <<cachedUserPath, chunk, passes, view>>

\* The loop has passed the end of its array, or the handler returned early.
DeliveryDone ==
    /\ frame.active
    /\ frame.dropped \/ frame.idx > Len(Iterated(frame))
    /\ frame' = NoFrame
    /\ lastCall' = Other
    /\ UNCHANGED <<pty, dataCallbacks, exitCallbacks, cstate, nextCb>>
    /\ UNCHANGED <<cachedUserPath, chunk, passes, view>>

\* ---------------------------------------------------------- PATH resolver

\* The first run of the shell without -i.
InteractiveArgsNoI == <<"-l", "-c", "echo $PATH">>

\* The arguments of the shell's interactive-login run and of its login-only
\* run.
InteractiveArgs == <<"-l", "-i", "-c", "echo $PATH">>
LoginArgs == <<"-l", "-c", "echo $PATH">>

\* execFileSync(shell, args, {timeout: 2000, encoding: "utf8", env: {HOME, USER}})
\* and what it ended in.
Exec(shell, args, host, outcome) ==
    [file |-> shell, args |-> args, timeout |-> 2000,
     env |-> [HOME |-> host.env.HOME, USER |-> host.env.USER],
     outcome |-> outcome]

\* execFileSync throws unless the shell has exited with 0 in time.
ExecThrows(outcome) == outcome.kind # "ok"

\* A query without the try around it.
QueryRaisesUncaught(outcome) == ExecThrows(outcome)

\* Each query runs in a try whose catch is empty.
QueryRaises(outcome) == FALSE

\* What a query leaves in interactive / result: the trimmed output, nothing
\* when execFileSync threw.
QueryValue(outcome) == IF ExecThrows(outcome) THEN <<>> ELSE Trim(outcome.out)

\* A resolver that never looks at the cache.
CacheNeverHit(cached, shellOverride) == FALSE

\* A cache that is used only by the calls that name no shell.
CacheHitUnnamedShell(cached, shellOverride) == Truthy(cached) /\ ~Truthy(shellOverride)

\* if (cachedUserPath) return cachedUserPath, before shellOverride is looked at.
CacheHit(cached, shellOverride) == Truthy(cached)

\* resolveUserPath(shellOverride) on the host as it is, o1 and o2 being what
\* the interactive-login and the login-only run of the shell end in, if run.
\* The step's label keeps whether the call before was clearPathCache, and
\* the shell the call before has run if it was a resolveUserPath that ran one.
resolveUserPath(shellOverride, host, o1, o2) ==
    LET shell == OrElse(shellOverride, detectShell(host))
        first == Exec(shell, InteractiveArgs, host, o1)
        second == Exec(shell, LoginArgs, host, o2)
        label == Call("resolveUserPath", FALSE,
                      [shellOverride |-> shellOverride, host |-> host,
                       afterClear |-> lastCall.op = "clearPathCache",
                       queriedBefore |-> IF lastCall.op = "resolveUserPath"
                                            /\ lastCall.execs # <<>>
                                         THEN lastCall.execs[1].file
                                         ELSE Undefined],
                      NoHandle)
    IN IF CacheHit(cachedUserPath, shellOverride)
       THEN /\ lastCall' = [label EXCEPT !.result = cachedUserPath]
            /\ UNCHANGED cachedUserPath
       ELSE IF Truthy(QueryValue(o1)) \/ QueryRaises(o1)
       THEN /\ cachedUserPath' = IF QueryRaises(o1) THEN cachedUserPath ELSE QueryValue(o1)
            /\ lastCall' = [label EXCEPT !.raised = QueryRaises(o1),
                                         !.execs = <<first>>,
                                         !.result = IF QueryRaises(o1) THEN Undefined
                                                    ELSE QueryValue(o1)]
       ELSE IF Truthy(QueryValue(o2)) \/ QueryRaises(o2)
       THEN /\ cachedUserPath' = IF QueryRaises(o2) THEN cachedUserPath ELSE QueryValue(o2)
            /\ lastCall' = [label EXCEPT !.raised = QueryRaises(o2),
                                         !.execs = <<first, second>>,
                                         !.result = IF QueryRaises(o2) THEN Undefined
                                                    ELSE QueryValue(o2)]
       ELSE /\ cachedUserPath' = FallbackPathOn[host]
            /\ lastCall' = [label EXCEPT !.execs = <<first, second>>,
                                         !.result = FallbackPathOn[host]]

\* A clearPathCache that leaves the cache as it is.
ClearedCacheKept == cachedUserPath

\* cachedUserPath = null
ClearedCache == Null

clearPathCache ==
    /\ cachedUserPath' = ClearedCache
    /\ lastCall' = Call("clearPathCache", FALSE, NoData, NoHandle)

ResolveUserPath ==
    /\ \E shellOverride \in ShellOverrides, host \in Hosts, o1 \in ExecOutcomes :
         \E o2 \in IF Truthy(QueryValue(o1)) THEN {o1} ELSE ExecOutcomes :
           resolveUserPath(shellOverride, host, o1, o2)
    /\ UNCHANGED <<pty, dataCallbacks, exitCallbacks, cstate, nextCb, frame, chunk, passes, view>>

ClearPathCache ==
    /\ clearPathCache
    /\ UNCHANGED <<pty, dataCallbacks, exitCallbacks, cstate, nextCb, frame, chunk, passes, view>>

\* spawn as any caller may call it, on any host.
SpawnAny ==
    /\ ~frame.active
    /\ \E outcome \in SpawnOutcomes, options \in AnyOptions, host \in Hosts :
         spawn(frame, outcome, options, host)
    /\ UNCHANGED <<cachedUserPath, chunk, passes, view>>

Next ==
    \/ Spawn
    \/ Write
    \/ SendCommand
    \/ SendText
    \/ OnData
    \/ OnExit
    \/ Resize
    \/ Kill
    \/ ChildExit
    \/ DeliverData
    \/ DeliverExit
    \/ InvokeNext
    \/ DeliveryDone

Spec == Init /\ [][Next]_vars

\* The PATH resolver: its cache and the calls that fill and clear it.
NextPath ==
    \/ ResolveUserPath
    \/ ClearPathCache

SpecPath == Init /\ [][NextPath]_vars

\* The sanitizer alone: a chunk of child output is given to
\* stripUnsupportedSequences, and what it returns is given to it again.
InitStrip ==
    /\ InitManager
    /\ InitCache
    /\ chunk \in ChunkInputs
    /\ passes = <<>>
    /\ InitView

Sanitize ==
    /\ Len(passes) < MaxPasses
    /\ passes' = Append(passes, stripUnsupportedSequences(
                                   IF passes = <<>> THEN chunk ELSE passes[Len(passes)]))
    /\ UNCHANGED <<pty, dataCallbacks, exitCallbacks, cstate, nextCb, frame, lastCall,
                   cachedUserPath, chunk, view>>

NextStrip == Sanitize

SpecStrip == InitStrip /\ [][NextStrip]_vars

\* The launches of spawn, with every option on every host, next to the PATH
\* resolver.
NextLaunch ==
    \/ SpawnAny
    \/ ResolveUserPath
    \/ ClearPathCache

SpecLaunch == Init /\ [][NextLaunch]_vars

\* ------------------------------------------------------------ TerminalView

\* The settings of the plugin the view reads.
ViewSettings ==
    { [autoLaunch |-> TRUE, claudeFlags |-> <<"--model", " ", "opus">>, shellPath |-> <<>>],
      [autoLaunch |-> FALSE, claudeFlags |-> <<>>, shellPath |-> Fish] }

\* command = `claude${flags}` when settings.autoLaunch, else undefined.
ViewCommand(settings) ==
    IF settings.autoLaunch
    THEN <<"claude">> \o (IF Truthy(settings.claudeFlags)
                          THEN <<" ">> \o settings.claudeFlags
                          ELSE <<>>)
    ELSE Undefined

\* The options spawnPty passes to spawn.
ViewOptions(settings) ==
    Options(OrElse(settings.shellPath, Undefined), ViewCommand(settings), Undefined)

\* What spawnPty writes on the terminal when spawn has thrown.
FailureLines(outcome) ==
    << [kind |-> "error", cause |-> outcome], [kind |-> "hint", cause |-> outcome] >>

\* this.ptyManager?.kill(), for the children: the child of the view's manager
\* is asked to terminate.
ManagerKilled(v) ==
    IF v.ptyManager /\ pty # 0 THEN KillRequested(pty) ELSE cstate

\* A view that leaves its input listener registered.
InputKept(v) == v.listeners

\* this.inputDisposable?.dispose(), for the listeners of the terminals.
InputDisposed(v) ==
    IF v.inputDisposable # 0
    THEN [v.listeners EXCEPT ![v.inputDisposable] = @ - 1]
    ELSE v.listeners

\* A spawnPty that leaves both registrations to a later turn of the event
\* loop.
ViewWiresLater(outcome) == FALSE

\* A spawnPty whose catch does not return.
ViewWiresAlways(outcome) == TRUE

\* The catch of spawnPty returns: the consumer and the input listener are
\* registered only when spawn has returned.
ViewWires(outcome) == ~SpawnRaises(outcome)

\* startResizeObserver, for the view: a new observer is attached and becomes
\* this.resizeObserver.
startResizeObserver(v) ==
    IF ~v.terminalContainer \/ v.terminal = 0 THEN v
    ELSE [v EXCEPT !.resizeObserver = TRUE, !.observing = @ + 1]

\* TerminalView.spawnPty on the view v, called by via; observe says whether
\* startResizeObserver follows it.
spawnPty(v, via, outcome, settings, observe) ==
    LET options == ViewOptions(settings)
        label == Call("spawnPty", FALSE,
                      [via |-> via, outcome |-> outcome, settings |-> settings,
                       ran |-> v.terminal # 0],
                      NoHandle)
        launch == Launch(LaunchFile(options, MacHost), LaunchArgs(options),
                         SpawnEnv(options, MacHost), ProcessEnvAfter(options, MacHost))
        cleaned == [v EXCEPT !.listeners = InputDisposed(v),
                             !.inputDisposable = 0,
                             !.ptyManager = TRUE]
        wired == IF ViewWires(outcome)
                 THEN [cleaned EXCEPT !.inputDisposable = v.terminal,
                                      !.listeners[v.terminal] = @ + 1]
                 ELSE cleaned
        shown == IF SpawnRaises(outcome)
                 THEN [wired EXCEPT !.display = @ \o FailureLines(outcome)]
                 ELSE wired
    IN IF v.terminal = 0
       THEN /\ view' = v
            /\ lastCall' = label
            /\ UNCHANGED <<pty, dataCallbacks, exitCallbacks, cstate, nextCb>>
       ELSE /\ NewChild \in Children
            /\ IF SpawnRaises(outcome)
               THEN /\ pty' = 0
                    /\ cstate' = ManagerKilled(v)
                    /\ lastCall' = IF outcome = "createFailure"
                                   THEN [label EXCEPT !.launch = launch]
                                   ELSE label
               ELSE /\ pty' = NewChild
                    /\ cstate' = [ManagerKilled(v) EXCEPT ![NewChild] = "running"]
                    /\ lastCall' = [label EXCEPT !.launch = launch]
            /\ IF ViewWires(outcome)
               THEN /\ nextCb' = nextCb + 1
                    /\ dataCallbacks' = <<nextCb + 1>>
               ELSE /\ UNCHANGED nextCb
                    /\ dataCallbacks' = <<>>
            /\ exitCallbacks' = <<>>
            /\ view' = IF observe THEN startResizeObserver(shown) ELSE shown

\* TerminalView.disposeTerminal, for the view.
disposeTerminal(v) ==
    [v EXCEPT !.resizeObserver = FALSE,
              !.observing = IF v.resizeObserver THEN @ - 1 ELSE @,
              !.listeners = InputDisposed(v),
              !.inputDisposable = 0,
              !.ptyManager = FALSE,
              !.terminal = 0,
              !.display = <<>>,
              !.typed = <<>>,
              !.written = <<>>]

\* onOpen: a new container, then initTerminal: the previous terminal is
\* disposed, a new one is made and opened, and the layout wait starts.
OnOpen ==
    /\ ~frame.active
    /\ view.opens < MaxOpens
    /\ cstate' = ManagerKilled(view)
    /\ pty' = 0
    /\ dataCallbacks' = <<>>
    /\ exitCallbacks' = <<>>
    /\ view' = [disposeTerminal(view) EXCEPT !.terminalContainer = TRUE,
                                             !.laidOut = FALSE,
                                             !.opens = @ + 1,
                                             !.terminal = view.opens + 1,
                                             !.pending = @ + 1]
    /\ lastCall' = Call("onOpen", FALSE, NoData, NoHandle)
    /\ UNCHANGED <<nextCb, frame, cachedUserPath, chunk, passes>>

\* The container is laid out: its rectangle has a width and a height.
Layout ==
    /\ ~frame.active
    /\ view.terminalContainer /\ ~view.laidOut
    /\ view' = [view EXCEPT !.laidOut = TRUE]
    /\ lastCall' = Other
    /\ UNCHANGED <<pty, dataCallbacks, exitCallbacks, cstate, nextCb, frame,
                   cachedUserPath, chunk, passes>>

\* rect && rect.width > 0 && rect.height > 0, rect being
\* this.terminalContainer?.getBoundingClientRect()
HasLayout(v) == v.terminalContainer /\ v.laidOut

\* An animation frame runs one waitForLayout, one left over from before the
\* last onClose or a later one: fit, spawnPty and startResizeObserver when
\* the container has a size, else the callback is handed to
\* requestAnimationFrame again.
WaitForLayout ==
    /\ ~frame.active
    /\ view.pending > 0
    /\ \E old \in BOOLEAN :
         /\ IF old THEN view.leftover > 0 ELSE view.pending > view.leftover
         /\ IF HasLayout(view)
            THEN \E outcome \in SpawnOutcomes, settings \in ViewSettings :
                   spawnPty([view EXCEPT !.pending = @ - 1,
                                         !.leftover = IF old THEN @ - 1 ELSE @],
                            "waitForLayout", outcome, settings, TRUE)
            ELSE /\ lastCall' = Call("waitForLayout", FALSE, NoData, NoHandle)
                 /\ UNCHANGED <<pty, dataCallbacks, exitCallbacks, cstate, nextCb, view>>
    /\ UNCHANGED <<frame, cachedUserPath, chunk, passes>>

\* restart: nothing without a terminal, else the terminal is cleared and
\* spawnPty runs.
Restart ==
    /\ ~frame.active
    /\ IF view.terminal = 0
       THEN /\ lastCall' = Call("restart", FALSE, NoData, NoHandle)
            /\ UNCHANGED <<pty, dataCallbacks, exitCallbacks, cstate, nextCb, view>>
       ELSE \E outcome \in SpawnOutcomes, settings \in ViewSettings :
              spawnPty([view EXCEPT !.display = <<>>], "restart",
                       outcome, settings, FALSE)
    /\ UNCHANGED <<frame, cachedUserPath, chunk, passes>>

\* onClose: disposeTerminal, and the container is let go.  No request of
\* an animation frame is cancelled: the callbacks pending stay pending.
OnClose ==
    /\ ~frame.active
    /\ cstate' = ManagerKilled(view)
    /\ pty' = 0
    /\ dataCallbacks' = <<>>
    /\ exitCallbacks' = <<>>
    /\ view' = [disposeTerminal(view) EXCEPT !.terminalContainer = FALSE,
                                             !.laidOut = FALSE,
                                             !.leftover = view.pending]
    /\ lastCall' = Call("onClose", FALSE, NoData, NoHandle)
    /\ UNCHANGED <<nextCb, frame, cachedUserPath, chunk, passes>>

\* The user types on the terminal: each input listener registered on it runs
\* this.ptyManager?.write(data).
Keystroke ==
    /\ ~frame.active
    /\ view.terminal # 0
    /\ \E data \in Texts :
         IF view.ptyManager /\ pty # 0
         THEN \E thr \in HandleThrows(pty) :
                /\ view' = [view EXCEPT !.typed =
                              [i \in 1..view.listeners[view.terminal] |->
                                 OnHandle(pty, "write", data, thr)]]
                /\ lastCall' = Call("keystroke",
                                    WriteRaises(thr) /\ view.listeners[view.terminal] > 0,
                                    [text |-> data], NoHandle)
         ELSE /\ view' = [view EXCEPT !.typed = <<>>]
              /\ lastCall' = Call("keystroke", FALSE, [text |-> data], NoHandle)
    /\ UNCHANGED <<pty, dataCallbacks, exitCallbacks, cstate, nextCb, frame,
                   cachedUserPath, chunk, passes>>

\* The consumers of the manager that has spawned child c: those of the
\* view's manager for its own child, none for a child of a manager the view
\* has killed and let go, kill having emptied its list.
ConsumersOf(c) == IF view.ptyManager /\ c = pty THEN dataCallbacks ELSE <<>>

\* A chunk of output of child c arrives: the handler of spawn sanitizes it
\* and, unless nothing is left, calls the consumers of its manager; the
\* consumer of the view runs this.terminal?.write(data).
ViewData ==
    /\ ~frame.active
    /\ \E c \in Children, data \in Chunks :
         /\ cstate[c] \in {"running", "killed", "dead"}
         /\ LET cleaned == OnDataCleaned(data)
                called == IF OnDataDropped(cleaned) \/ view.terminal = 0
                          THEN <<>>
                          ELSE ConsumersOf(c)
            IN view' = [view EXCEPT !.written = [i \in 1..Len(called) |-> cleaned]]
         /\ lastCall' = Call("data", FALSE, [child |-> c, raw |-> data], NoHandle)
    /\ UNCHANGED <<pty, dataCallbacks, exitCallbacks, cstate, nextCb, frame,
                   cachedUserPath, chunk, passes>>

NextView ==
    \/ OnOpen
    \/ Layout
    \/ WaitForLayout
    \/ Restart
    \/ OnClose
    \/ Keystroke
    \/ ViewData
    \/ ChildExit

SpecView == Init /\ [][NextView]_vars

\* Animation frames keep coming: a pending waitForLayout is run.
SpecViewFair == SpecView /\ WF_view(WaitForLayout)

\* ----------------------------------------------------------------- claims

\* The loop of the fan-out in progress is over.
LoopOver(f) == f.dropped \/ f.idx > Len(Iterated(f))

NoDuplicates(q) == \A i, j \in 1..Len(q) : i # j => q[i] # q[j]

\* Registration ids grow with the time of registration.
InRegistrationOrder(q) == \A i, j \in 1..Len(q) : i < j => q[i] < q[j]

\* C1: a spawn on a manager that already holds a session first asks for the
\* old child to be terminated, so the manager never has two children at once
\* that run and have not been asked to terminate.
C1_SessionsNeverOverlap ==
    Cardinality({c \in Children : cstate[c] = "running"}) <= 1

\* C2: after kill() has returned, no consumer that was registered before the
\* kill is invoked again.
C2_NoCallbackAfterKill == ~frame.stale

\* C3: when a consumer calls kill() during a fan-out, no later consumer of
\* the list is invoked for that event once kill() has returned.
C3_KillStopsFanOut == ~frame.late

\* C4: once the exit event of the child the handle names has been handled,
\* the handle is null again.
C4_HandleNullAfterExit ==
    (~frame.active /\ pty # 0) => cstate[pty] # "reaped"

\* C5: the exit record of a child is given to every exit consumer registered
\* when the exit event arrives, once each: no consumer is invoked twice for
\* it, and when the loop is over none has been left out.
C5_ExitDeliveredOnce ==
    (frame.active /\ frame.kind = "exit") =>
        /\ NoDuplicates(frame.calls)
        /\ LoopOver(frame) => Range(frame.startList) \subseteq Range(frame.calls)

C5_Witness ==
    /\ frame.active
    /\ frame.kind = "exit"
    /\ LoopOver(frame)
    /\ Len(frame.startList) >= 2
    /\ frame.calls = frame.startList

\* C6, as claimed: for every data event and every exit event, all the
\* consumers registered when it arrives are invoked, in registration order.
C6_EveryEventReachesAll ==
    frame.active =>
        /\ InRegistrationOrder(frame.calls)
        /\ LoopOver(frame) => Range(frame.startList) \subseteq Range(frame.calls)

\* C6, amended: for every exit event, and every data event whose sanitized
\* chunk is not empty, all the consumers registered when it arrives are
\* invoked, in registration order.
C6_DeliveredEventReachesAll ==
    (frame.active /\ (frame.kind = "exit" \/ Len(frame.payload) > 0)) =>
        /\ InRegistrationOrder(frame.calls)
        /\ LoopOver(frame) => Range(frame.startList) \subseteq Range(frame.calls)

C6_Witness ==
    /\ frame.active
    /\ frame.kind = "data"
    /\ LoopOver(frame)
    /\ Len(frame.startList) >= 2
    /\ Len(frame.calls) > Len(frame.startList)

\* C7: a consumer of a data event is given the chunk as the sanitizer leaves
\* it, never an empty one, and a chunk the sanitizer empties reaches nobody.
C7_OnlySanitizedChunks ==
    (frame.active /\ frame.kind = "data") =>
        /\ frame.calls # <<>> =>
              /\ frame.payload = stripUnsupportedSequences(frame.raw)
              /\ frame.payload # <<>>
        /\ stripUnsupportedSequences(frame.raw) = <<>> => frame.calls = <<>>

C7_Witness ==
    /\ frame.active
    /\ frame.kind = "data"
    /\ frame.calls # <<>>
    /\ frame.payload # frame.raw

\* C8: write(data) with a null handle calls no handle, does not raise and
\* changes nothing of the manager; with a live session it passes exactly data
\* to the handle of the current child.
C8_WriteForwardsOrNothing ==
    [][lastCall'.op = "write" =>
         /\ UNCHANGED <<pty, dataCallbacks, exitCallbacks, cstate, nextCb>>
         /\ pty = 0 => (lastCall'.handle = NoHandle /\ ~lastCall'.raised)
         /\ (pty # 0 /\ Alive(pty)) =>
               /\ lastCall'.handle = OnHandle(pty, "write", lastCall'.data.text, FALSE)
               /\ ~lastCall'.raised]_vars

C8_Witness ==
    /\ lastCall.op = "write"
    /\ pty = 0
    /\ \E c \in Children : cstate[c] = "killed"

\* C9: write() never raises to its caller, whatever the state of the session.
C9_WriteNeverRaises == lastCall.op = "write" => ~lastCall.raised

\* C10: resize never raises, and leaves the handle and the callback lists
\* as they were, also when the handle's resize throws.
C10_ResizeNeverRaises ==
    [][lastCall'.op = "resize" =>
         /\ ~lastCall'.raised
         /\ UNCHANGED <<pty, dataCallbacks, exitCallbacks>>]_vars

C10_Witness ==
    /\ lastCall.op = "resize"
    /\ lastCall.handle.threw
    /\ cstate[lastCall.handle.child] \in {"dead", "reaped"}

\* C11: kill() on a manager that holds no handle and no consumer calls no
\* handle, does not raise and changes nothing of the manager; a kill() that
\* directly follows a kill() finds the state the first one left and leaves
\* it as it is.
C11_KillIdempotent ==
    [][lastCall'.op = "kill" =>
         /\ (pty = 0 /\ dataCallbacks = <<>> /\ exitCallbacks = <<>>) =>
               /\ ~lastCall'.raised
               /\ lastCall'.handle = NoHandle
               /\ UNCHANGED <<pty, dataCallbacks, exitCallbacks, cstate, nextCb>>
         /\ lastCall.op = "kill" =>
               /\ ~lastCall'.raised
               /\ UNCHANGED <<pty, dataCallbacks, exitCallbacks, cstate, nextCb>>]_vars

\* A kill() has found the handle null after an earlier kill() had asked a
\* child to terminate.
C11_Witness ==
    /\ lastCall.op = "kill"
    /\ lastCall.handle = NoHandle
    /\ ~lastCall.raised
    /\ \E c \in Children : cstate[c] = "killed"

\* C12: when kill() has returned the handle is null and both lists are
\* empty, and kill() has not raised, also when the handle's kill threw.
C12_KillAlwaysClears ==
    lastCall.op = "kill" =>
        /\ pty = 0
        /\ dataCallbacks = <<>>
        /\ exitCallbacks = <<>>
        /\ ~lastCall.raised

C12_Witness ==
    /\ lastCall.op = "kill"
    /\ lastCall.handle.threw
    /\ cstate[lastCall.handle.child] \in {"dead", "reaped"}
    /\ pty = 0

\* The spawn that made the last step has launched a process.
Launched == lastCall.op = "spawn" /\ lastCall.launch.made /\ ~lastCall.raised

\* What resolveUserPath would return in this state on host: the cache if it
\* is filled, else the trimmed output of a shell run or the fallback.
ResolverValues(host) ==
    IF Truthy(cachedUserPath) THEN {cachedUserPath}
    ELSE {Trim(o.out) : o \in {x \in ExecOutcomes : x.kind = "ok" /\ Truthy(Trim(x.out))}}
            \cup {buildFallbackPath(host)}

\* C13, as claimed: the PATH of the child's environment is options.resolvedPath
\* when it is given (and not empty), and otherwise a value the PATH resolver
\* would return.
C13_PathFromResolver ==
    Launched =>
        IF lastCall.data.options.resolvedPath \notin {Undefined, <<>>}
        THEN lastCall.launch.env.PATH = lastCall.data.options.resolvedPath
        ELSE lastCall.launch.env.PATH \in ResolverValues(lastCall.data.host)

\* C13, amended: the PATH of the child's environment is options.resolvedPath
\* when it is given and not empty, and otherwise the fallback PATH: the
\* well-known directories, then the entries of the inherited PATH (of
\* /usr/bin:/bin when there is none), each entry once and none empty,
\* whatever the resolver's cache holds.
C13_PathFromOptionsOrFallback ==
    Launched =>
        LET options == lastCall.data.options
            host == lastCall.data.host
            inherited == IF host.env.PATH \in {Undefined, <<>>}
                         THEN <<"/", "usr", "/", "bin", ":", "/", "bin">>
                         ELSE host.env.PATH
            entries == Split(lastCall.launch.env.PATH, ":")
        IN IF options.resolvedPath \notin {Undefined, <<>>}
           THEN lastCall.launch.env.PATH = options.resolvedPath
           ELSE /\ lastCall.launch.env.PATH = buildFallbackPath(host)
                /\ SubSeq(entries, 1, 3) =
                     << PathJoin(host.platform, OrElse(host.env.HOME, <<>>),
                                 <<".local">>, <<"bin">>),
                        PathJoin(host.platform, OrElse(host.env.HOME, <<>>),
                                 <<".bun">>, <<"bin">>),
                        <<"/", "usr", "/", "local", "/", "bin">> >>
                /\ Range(Split(inherited, ":")) \ {<<>>} \subseteq Range(entries)
                /\ NoDuplicates(entries)
                /\ <<>> \notin Range(entries)

\* A spawn without resolvedPath while the resolver's cache holds a PATH: the
\* child got another PATH than the cached one.
C13_Witness ==
    /\ Launched
    /\ lastCall.data.options.resolvedPath = Undefined
    /\ Truthy(cachedUserPath)
    /\ lastCall.launch.env.PATH # cachedUserPath
    /\ lastCall.data.host.env.PATH # Undefined

\* C14: with options.command set, the program launched is the first token
\* of the command and its arguments are the remaining tokens, and the shell
\* is not launched; without it, the program is options.shellPath, or the
\* detected shell when there is none, with no arguments.
C14_CommandBypassesShell ==
    Launched =>
        LET options == lastCall.data.options
            host == lastCall.data.host
            shell == IF options.shellPath \notin {Undefined, <<>>} THEN options.shellPath
                     ELSE detectShell(host)
            tokens == parseCommand(options.command)
        IN /\ (options.command \notin {Undefined, <<>>} /\ Len(tokens) > 0) =>
                /\ lastCall.launch.program = tokens[1]
                /\ lastCall.launch.args = Tail(tokens)
                /\ lastCall.launch.program # shell
           /\ options.command = ClaudeCommand =>
                /\ lastCall.launch.program = <<"claude">>
                /\ lastCall.launch.args = << <<"--model">>, <<"opus">> >>
           /\ options.command \in {Undefined, <<>>} =>
                /\ lastCall.launch.program = shell
                /\ lastCall.launch.args = <<>>

\* A command was launched although a shell override was given too.
C14_Witness ==
    /\ Launched
    /\ lastCall.data.options.command = ClaudeCommand
    /\ lastCall.data.options.shellPath = Fish
    /\ lastCall.launch.program = <<"claude">>
    /\ Len(lastCall.launch.args) = 2

\* The last step was a call of resolveUserPath.
Resolved == lastCall.op = "resolveUserPath"

\* The shell run e has exited with 0 and printed more than whitespace.
Printed(e) == e.outcome.kind = "ok" /\ Trim(e.outcome.out) # <<>>

\* C15: while the cache is filled, resolveUserPath returns the cached value,
\* runs no shell and leaves the cache as it is; a call that directly follows
\* another call returns the same value and runs no shell.
C15_CachedPathReturnedVerbatim ==
    [][lastCall'.op = "resolveUserPath" =>
         /\ cachedUserPath # Null =>
               /\ lastCall'.result = cachedUserPath
               /\ lastCall'.execs = <<>>
               /\ cachedUserPath' = cachedUserPath
         /\ lastCall.op = "resolveUserPath" =>
               /\ lastCall'.result = lastCall.result
               /\ lastCall'.execs = <<>>]_vars

\* A later call, made for a named shell on the bare Linux host: it has run
\* no shell and returned the PATH a shell run had printed for an earlier
\* call.
C15_Witness ==
    /\ Resolved
    /\ lastCall.execs = <<>>
    /\ lastCall.result = UserPath
    /\ lastCall.data.shellOverride = Fish
    /\ lastCall.data.host.env.HOME = Undefined

\* C16: the call of resolveUserPath that follows clearPathCache runs the
\* shell again: once, interactive-login, when that run prints a PATH, and a
\* second time, login-only, when it does not.
C16_ClearForcesNewQuery ==
    [][(lastCall.op = "clearPathCache" /\ lastCall'.op = "resolveUserPath") =>
         LET e == lastCall'.execs
         IN /\ Len(e) \in {1, 2}
            /\ e[1].args = <<"-l", "-i", "-c", "echo $PATH">>
            /\ Len(e) = 1 <=> Printed(e[1])
            /\ Len(e) = 2 => e[2].args = <<"-l", "-c", "echo $PATH">>]_vars

\* The call after clearPathCache has run the shell twice and returned what
\* the second run printed.
C16_Witness ==
    /\ Resolved
    /\ lastCall.data.afterClear
    /\ Len(lastCall.execs) = 2
    /\ lastCall.result = Trim(lastCall.execs[2].outcome.out)

\* C17: a call of resolveUserPath that finds the cache empty runs the shell
\* interactive-login first; it runs it login-only exactly when the first run
\* failed, timed out or printed nothing; it returns the output of the first
\* run that printed a PATH, else the fallback PATH; and what it returns is
\* in the cache afterwards.
C17_QueryOrderAndCaching ==
    [][(cachedUserPath = Null /\ lastCall'.op = "resolveUserPath") =>
         LET e == lastCall'.execs
             shell == IF lastCall'.data.shellOverride \notin {Undefined, <<>>}
                      THEN lastCall'.data.shellOverride
                      ELSE detectShell(lastCall'.data.host)
         IN /\ Len(e) \in {1, 2}
            /\ e[1].args = <<"-l", "-i", "-c", "echo $PATH">> /\ e[1].file = shell
            /\ Len(e) = 2 <=> ~Printed(e[1])
            /\ Len(e) = 2 => (e[2].args = <<"-l", "-c", "echo $PATH">> /\ e[2].file = shell)
            /\ lastCall'.result =
                 IF Printed(e[1]) THEN Trim(e[1].outcome.out)
                 ELSE IF Printed(e[2]) THEN Trim(e[2].outcome.out)
                 ELSE buildFallbackPath(lastCall'.data.host)
            /\ cachedUserPath' = lastCall'.result]_vars

\* The login-only run produced the result after the interactive-login run
\* had timed out.
C17_Witness ==
    /\ Resolved
    /\ Len(lastCall.execs) = 2
    /\ lastCall.execs[1].outcome.kind = "timeout"
    /\ Printed(lastCall.execs[2])
    /\ cachedUserPath = UserPath

\* The values the cache may take: a PATH a shell run printed, or the
\* fallback PATH of a host.
CacheablePaths ==
    {Trim(o.out) : o \in {x \in ExecOutcomes : x.kind = "ok"}}
        \cup {buildFallbackPath(h) : h \in Hosts}

\* C18: resolveUserPath does not raise and returns a string that is not
\* empty, whatever the two shell runs end in, and the cache holds null or
\* such a string, never anything else.
C18_ResolveNeverFails ==
    /\ Resolved =>
          /\ ~lastCall.raised
          /\ lastCall.result \notin {Undefined, Null, <<>>}
          /\ lastCall.result = cachedUserPath
    /\ cachedUserPath # Null =>
          /\ cachedUserPath \in CacheablePaths
          /\ cachedUserPath \notin {Undefined, <<>>}

\* Both shell runs failed, in different ways, and the call returned the
\* fallback PATH.
C18_Witness ==
    /\ Resolved
    /\ Len(lastCall.execs) = 2
    /\ lastCall.execs[1].outcome.kind = "timeout"
    /\ lastCall.execs[2].outcome.kind = "exception"
    /\ ~lastCall.raised
    /\ lastCall.result = buildFallbackPath(lastCall.data.host)
    /\ Len(lastCall.result) > 0

\* No targeted sequence starts anywhere in s.
NoTargetedSequence(s) == \A i \in 1..Len(s) : MatchAt(s, i) = 0

\* a[i..] can be read off b[j..] from left to right, skipping characters.
RECURSIVE IsSubsequenceFrom(_, _, _, _)
IsSubsequenceFrom(a, i, b, j) ==
    IF i > Len(a) THEN TRUE
    ELSE IF j > Len(b) THEN FALSE
    ELSE IF a[i] = b[j] THEN IsSubsequenceFrom(a, i + 1, b, j + 1)
    ELSE IsSubsequenceFrom(a, i, b, j + 1)

\* C19: what stripUnsupportedSequences returns for a chunk holds no targeted
\* sequence, and it holds the chunk's other characters in their order: it
\* can be read off the chunk from left to right, and a chunk without a
\* targeted sequence is returned as it is.
C19_OutputHasNoTargetedSequence ==
    Len(passes) >= 1 =>
        /\ NoTargetedSequence(passes[1])
        /\ IsSubsequenceFrom(passes[1], 1, chunk, 1)
        /\ NoTargetedSequence(chunk) => passes[1] = chunk

\* C20: applying stripUnsupportedSequences to its own output returns that
\* output.
C20_StripIdempotent ==
    Len(passes) >= 2 => passes[2] = passes[1]

\* C21: a spawn that fails, at the loading of the binding or at the creation
\* of the process, raises to its caller and leaves the handle, both lists
\* and every child (the handlers on its handle with it) as they were.
C21_FailedSpawnLeavesNothing ==
    [][(lastCall'.op = "spawn" /\ lastCall'.data.outcome # "ok") =>
         /\ lastCall'.raised
         /\ UNCHANGED <<pty, dataCallbacks, exitCallbacks, cstate, nextCb>>]_vars

\* The creation of a second child was rejected while the manager held the
\* first one and a consumer.
C21_Witness ==
    /\ lastCall.op = "spawn"
    /\ lastCall.data.outcome = "createFailure"
    /\ lastCall.raised
    /\ pty = 1
    /\ cstate[2] = "none"
    /\ Len(dataCallbacks) = 1

EnvNames ==
    {"HOME", "USER", "PATH", "SHELL", "COMSPEC", "LANG", "TERM", "COLORTERM", "TERM_PROGRAM"}

\* C23: the child's environment has every inherited variable with its
\* inherited value, except TERM, COLORTERM, PATH and TERM_PROGRAM, which are
\* xterm-256color, truecolor, the PATH spawn resolved and xterm whatever was
\* inherited; and process.env is after the spawn what it was before.
C23_EnvIsSupersetOfInherited ==
    Launched =>
        LET inherited == lastCall.data.host.env
            env == lastCall.launch.env
        IN /\ \A n \in EnvNames \ {"TERM", "COLORTERM", "PATH", "TERM_PROGRAM"} :
                env[n] = inherited[n]
           /\ env.TERM = <<"xterm-256color">>
           /\ env.COLORTERM = <<"truecolor">>
           /\ env.TERM_PROGRAM = <<"xterm">>
           /\ env.PATH = IF lastCall.data.options.resolvedPath \notin {Undefined, <<>>}
                         THEN lastCall.data.options.resolvedPath
                         ELSE buildFallbackPath(lastCall.data.host)
           /\ lastCall.launch.processEnv = inherited

\* A child launched on the host that inherits another TERM and TERM_PROGRAM:
\* both are overridden, HOME, SHELL and LANG are passed through.
C23_Witness ==
    /\ Launched
    /\ lastCall.data.host.env.TERM = <<"screen">>
    /\ lastCall.launch.env.TERM = <<"xterm-256color">>
    /\ lastCall.launch.env.TERM_PROGRAM = <<"xterm">>
    /\ lastCall.launch.env.SHELL = <<"/", "bin", "/", "zsh">>
    /\ lastCall.launch.env.LANG = <<"en_US.UTF-8">>
    /\ lastCall.launch.processEnv.TERM = <<"screen">>

\* The command has no quote in it and neither starts nor ends with
\* whitespace.
PlainCommand(c) ==
    /\ c \notin {Undefined, <<>>}
    /\ SQ \notin Range(c) /\ DQ \notin Range(c)
    /\ c[1] # " " /\ c[Len(c)] # " "

\* C24: for a command of unquoted tokens separated by whitespace, the
\* program launched is the first token and the arguments are the other
\* tokens in their order, by the tokenizer spawn calls and by the whitespace
\* split of the earlier revision alike; "claude --model opus" gives the
\* program claude and the arguments --model, opus.
C24_TokensOfPlainCommand ==
    (Launched /\ PlainCommand(lastCall.data.options.command)) =>
        LET c == lastCall.data.options.command
            fields == FilterBoolean(Split(c, " "))
        IN /\ lastCall.launch.program = fields[1]
           /\ lastCall.launch.args = Tail(fields)
           /\ SplitWhitespace(c) = <<lastCall.launch.program>> \o lastCall.launch.args
           /\ c = <<"claude", " ", "--model", " ", "opus">> =>
                /\ lastCall.launch.program = <<"claude">>
                /\ lastCall.launch.args = << <<"--model">>, <<"opus">> >>

\* A command with two spaces between its two tokens was launched.
C24_Witness ==
    /\ Launched
    /\ lastCall.data.options.command = <<"ls", " ", " ", "-la">>
    /\ lastCall.launch.program = <<"ls">>
    /\ lastCall.launch.args = << <<"-la">> >>

\* C25: sendCommand(text) makes exactly one write on the handle, of text
\* with one carriage return after it, and sendText(text) exactly one write of
\* text as it is; on a manager that holds no handle (never spawned, or after
\* kill) both call no handle, raise nothing and change nothing.
C25_SendWritesOnceOrNothing ==
    [][lastCall'.op \in {"sendCommand", "sendText"} =>
         LET sent == IF lastCall'.op = "sendCommand"
                     THEN lastCall'.data.text \o <<CR>>
                     ELSE lastCall'.data.text
         IN /\ UNCHANGED <<pty, dataCallbacks, exitCallbacks, cstate, nextCb>>
            /\ pty = 0 => (lastCall'.handle = NoHandle /\ ~lastCall'.raised)
            /\ pty # 0 =>
                  /\ lastCall'.handle.child = pty
                  /\ lastCall'.handle.hop = "write"
                  /\ lastCall'.handle.harg = sent
                  /\ Alive(pty) => ~lastCall'.raised]_vars

\* sendCommand("x") wrote x and a carriage return to the running child.
C25_Witness ==
    /\ lastCall.op = "sendCommand"
    /\ lastCall.data.text = <<"x">>
    /\ lastCall.handle = OnHandle(pty, "write", <<"x", CR>>, FALSE)
    /\ pty # 0 /\ cstate[pty] = "running"

\* The place of the first occurrence of x in list.
FirstIndex(list, x) ==
    CHOOSE i \in 1..Len(list) : list[i] = x /\ \A j \in 1..(i - 1) : list[j] # x

\* C27: the PATH spawn falls back to is made of the seven well-known
\* directories followed by the entries of the inherited PATH (of /usr/bin:/bin
\* when no PATH is inherited): every non-empty one of them is in it exactly
\* once, in the order of the first occurrences, and no entry is empty.
C27_FallbackPathDeduplicated ==
    (Launched /\ ~Truthy(lastCall.data.options.resolvedPath)) =>
        LET env == lastCall.data.host.env
            platform == lastCall.data.host.platform
            home == IF env.HOME = Undefined THEN <<>> ELSE env.HOME
            inherited == IF env.PATH \in {Undefined, <<>>}
                         THEN <<"/", "usr", "/", "bin", ":", "/", "bin">>
                         ELSE env.PATH
            all == FallbackExtras(platform, home) \o Split(inherited, ":")
            entries == Split(lastCall.launch.env.PATH, ":")
        IN /\ NoDuplicates(entries)
           /\ <<>> \notin Range(entries)
           /\ Range(entries) = Range(all) \ {<<>>}
           /\ \A i, j \in 1..Len(entries) :
                 i < j => FirstIndex(all, entries[i]) < FirstIndex(all, entries[j])
           /\ entries[1] = PathJoin(platform, home, <<".local">>, <<"bin">>)

\* The fallback was built on macOS from a PATH that repeats $HOME/bin and a
\* well-known directory, repeats an entry of its own and has an empty
\* entry: of its six entries two are left, /usr/bin and /bin, after the
\* seven directories.
C27_Witness ==
    /\ Launched
    /\ lastCall.data.options.resolvedPath = Undefined
    /\ lastCall.data.host.platform = "darwin"
    /\ Len(Split(lastCall.data.host.env.PATH, ":")) = 6
    /\ Split(lastCall.launch.env.PATH, ":") =
          << <<"/", "Users", "/", "u", "/", ".local", "/", "bin">>,
             <<"/", "Users", "/", "u", "/", ".bun", "/", "bin">>,
             <<"/", "usr", "/", "local", "/", "bin">>,
             <<"/", "opt", "/", "homebrew", "/", "bin">>,
             <<"/", "opt", "/", "homebrew", "/", "sbin">>,
             <<"/", "Users", "/", "u", "/", ".npm-global", "/", "bin">>,
             <<"/", "Users", "/", "u", "/", "bin">>,
             <<"/", "usr", "/", "bin">>,
             <<"/", "bin">> >>

\* C28: while the cache is filled, resolveUserPath returns the cached value
\* and runs no shell whatever shell the call names; in particular the call
\* that follows a call which has run a shell returns what that call returned,
\* also when it names another shell.
C28_CacheIgnoresShellOverride ==
    [][lastCall'.op = "resolveUserPath" =>
         /\ Truthy(cachedUserPath) =>
               /\ lastCall'.result = cachedUserPath
               /\ lastCall'.execs = <<>>
               /\ ~lastCall'.raised
               /\ cachedUserPath' = cachedUserPath
         /\ (lastCall.op = "resolveUserPath" /\ lastCall.execs # <<>>) =>
               /\ lastCall'.data.queriedBefore = lastCall.execs[1].file
               /\ lastCall'.result = lastCall.result
               /\ lastCall'.execs = <<>>]_vars

\* A call that names fish has returned, without running a shell, the PATH
\* that zsh had printed for the call before it.
C28_Witness ==
    /\ Resolved
    /\ lastCall.data.shellOverride = Fish
    /\ lastCall.data.queriedBefore = <<"/", "bin", "/", "zsh">>
    /\ lastCall.execs = <<>>
    /\ lastCall.result = UserPath
    /\ cachedUserPath = UserPath

\* No child runs without having been asked to terminate.
NoneRunning(cs) == \A c \in Children : cs[c] # "running"

\* C22: when spawn throws inside spawnPty, called by the layout wait of an
\* open or by restart, spawnPty does not throw, the error line and the hint
\* are the last lines on the terminal, no consumer is registered with the
\* manager, no input listener is registered on a terminal, the manager holds
\* no handle and no child runs.
C22_FailedSpawnPtyShowsError ==
    [][(/\ lastCall'.op = "spawnPty"
        /\ lastCall'.data.ran
        /\ lastCall'.data.outcome # "ok") =>
         LET n == Len(view'.display)
         IN /\ ~lastCall'.raised
            /\ n >= 2
            /\ SubSeq(view'.display, n - 1, n) = FailureLines(lastCall'.data.outcome)
            /\ dataCallbacks' = <<>> /\ exitCallbacks' = <<>>
            /\ view'.inputDisposable = 0
            /\ \A t \in Terminals : view'.listeners[t] = 0
            /\ pty' = 0
            /\ NoneRunning(cstate')]_vars

\* A restart whose spawn could not load the binding: the child of the
\* session before is asked to terminate, the two lines are on the cleared
\* terminal.
C22_Witness ==
    /\ lastCall.op = "spawnPty"
    /\ lastCall.data.via = "restart"
    /\ lastCall.data.outcome = "loadFailure"
    /\ cstate[1] = "killed"
    /\ view.display = FailureLines("loadFailure")
    /\ pty = 0 /\ view.inputDisposable = 0

\* C26: whatever the view has been through, at most one input listener is
\* registered on its terminals, at most one child runs that was not asked to
\* terminate, and a keystroke leads to at most one write.
C26_OneListenerOneChild ==
    /\ \A t \in Terminals : view.listeners[t] <= 1
    /\ Cardinality({t \in Terminals : view.listeners[t] > 0}) <= 1
    /\ Cardinality({c \in Children : cstate[c] = "running"}) <= 1
    /\ Len(view.typed) <= 1
    /\ lastCall.op = "keystroke" =>
          \A i \in 1..Len(view.typed) : view.typed[i].child = pty

\* After a restart a keystroke was written once, to the second child.
C26_Witness ==
    /\ lastCall.op = "keystroke"
    /\ view.typed = << OnHandle(2, "write", <<"x">>, FALSE) >>
    /\ cstate[1] = "killed"
    /\ cstate[2] = "running"

\* C29: onClose leaves the view without a manager and without a child that
\* runs, and a layout-wait callback that was pending when the view closed
\* starts no child when it runs later.
C29_NoSpawnAfterClose ==
    [][/\ lastCall'.op = "onClose" =>
             (pty' = 0 /\ ~view'.ptyManager /\ view'.terminal = 0 /\ NoneRunning(cstate'))
       /\ (lastCall'.op = "spawnPty" /\ view'.leftover < view.leftover) =>
             \A c \in Children : cstate[c] = "none" => cstate'[c] = "none"]_vars

\* C30: a layout wait that is pending comes to an end once the container has
\* a size or the view is closed.
C30_LayoutWaitEnds ==
    (view.pending > 0 /\ (HasLayout(view) \/ ~view.terminalContainer))
        ~> (view.pending = 0)

\* C31: at most one resize observer is attached at a time, an attached
\* observer is the one this.resizeObserver names, and after disposeTerminal
\* (onClose, or the initTerminal of a later onOpen) none is attached.
C31_OneObserverAllDisconnected ==
    /\ view.observing <= 1
    /\ view.observing = 1 => view.resizeObserver
    /\ lastCall.op \in {"onOpen", "onClose"} => view.observing = 0

\* C32: whenever the view's manager holds a child, the view's consumer is
\* registered with it, so there is no turn of the event loop in which a data
\* event of that child finds no consumer; and every chunk of the child that
\* the sanitizer does not empty is written on the terminal, once, as the
\* sanitizer leaves it.
C32_NoChunkLost ==
    [][/\ pty' # 0 => (Len(dataCallbacks') = 1 /\ view'.terminal # 0)
       /\ lastCall'.op = "data" =>
            LET cleaned == stripUnsupportedSequences(lastCall'.data.raw)
            IN (lastCall'.data.child = pty /\ cleaned # <<>>) =>
                   view'.written = <<cleaned>>]_vars

\* A chunk of the child spawned by a restart, with a keyboard protocol
\* sequence inside text, was written on the terminal without the sequence.
C32_Witness ==
    /\ lastCall.op = "data"
    /\ lastCall.data.child = 2 /\ pty = 2
    /\ cstate[1] = "killed"
    /\ lastCall.data.raw = <<"a", ESC, "[", ">", "1", "u", "b">>
    /\ view.written = << <<"a", "b">> >>

====
